---- MODULE Spec2Model ----
(***************************************************************************)
(* The Kiwi lexer (src/src/kiwi/lexer): the token table, the master regex  *)
(* compiled from it, and the buffered scanning engine with lookahead,      *)
(* snapshots, skip set and strict / recovery error handling.               *)
(*                                                                         *)
(* Text is modelled by TLA+ strings; a character is a string of length 1   *)
(* and offsets are 0-based as in Python.                                   *)
(***************************************************************************)
EXTENDS Integers, Sequences, FiniteSets, TLC

(***************************************************************************)
(* Characters                                                              *)
(***************************************************************************)
\* TLA+ strings have no escape for U+000B; this character stands for it.
VT == "~"

Digits == {"0", "1", "2", "3", "4", "5", "6", "7", "8", "9"}
Lower == {"a", "b", "c", "d", "e", "f", "g", "h", "i", "j", "k", "l", "m",
          "n", "o", "p", "q", "r", "s", "t", "u", "v", "w", "x", "y", "z"}
Upper == {"A", "B", "C", "D", "E", "F", "G", "H", "I", "J", "K", "L", "M",
          "N", "O", "P", "Q", "R", "S", "T", "U", "V", "W", "X", "Y", "Z"}
HexDigits == Digits \cup {"a", "b", "c", "d", "e", "f", "A", "B", "C", "D", "E", "F"}
WordChars == Lower \cup Upper \cup Digits \cup {"_"}

\* source[i] for a 0-based offset i
CharAt(s, i) == SubSeq(s, i + 1, i + 1)
\* source[a:b]
Slice(s, a, b) == SubSeq(s, a + 1, b)

(***************************************************************************)
(* Regular expressions: the constructs the token patterns use, with the    *)
(* backtracking semantics of Python's re.  Ends(re, s, i) is the sequence  *)
(* of offsets at which a match of re that starts at offset i of s can end, *)
(* in the order the backtracking matcher tries them; the match re.match    *)
(* reports is the first one.                                               *)
(***************************************************************************)
Lit(str) == [k |-> "lit", s |-> str]
Cls(S) == [k |-> "cls", set |-> S, neg |-> FALSE]
NotCls(S) == [k |-> "cls", set |-> S, neg |-> TRUE]
Cat(rs) == [k |-> "seq", rs |-> rs]
Alt(rs) == [k |-> "alt", rs |-> rs]
Star(r) == [k |-> "star", r |-> r, lazy |-> FALSE]
LazyStar(r) == [k |-> "star", r |-> r, lazy |-> TRUE]
Plus(r) == Cat(<<r, Star(r)>>)
Opt(r) == Alt(<<r, Lit("")>>)
WordBoundary == [k |-> "wb"]
EndAnchor == [k |-> "eos"]
\* '.' without DOTALL
AnyChar == NotCls({"\n"})

IsWordAt(s, i) == i >= 0 /\ i < Len(s) /\ CharAt(s, i) \in WordChars

RECURSIVE Ends(_, _, _)
RECURSIVE EndsSeq(_, _, _, _)
RECURSIVE EndsAlt(_, _, _, _)
RECURSIVE EndsFrom(_, _, _, _)

\* the ends of re matched from each offset of starts[j..], in order
EndsFrom(re, s, starts, j) ==
    IF j > Len(starts) THEN <<>>
    ELSE Ends(re, s, starts[j]) \o EndsFrom(re, s, starts, j + 1)

\* rs[j..] matched in sequence from offset i
EndsSeq(rs, j, s, i) ==
    IF j > Len(rs) THEN <<i>>
    ELSE LET first == Ends(rs[j], s, i)
             RECURSIVE Rest(_)
             Rest(n) == IF n > Len(first) THEN <<>>
                        ELSE EndsSeq(rs, j + 1, s, first[n]) \o Rest(n + 1)
         IN  Rest(1)

\* the alternatives rs[j..] tried in order at offset i
EndsAlt(rs, j, s, i) ==
    IF j > Len(rs) THEN <<>>
    ELSE Ends(rs[j], s, i) \o EndsAlt(rs, j + 1, s, i)

Ends(re, s, i) ==
    CASE re.k = "lit" ->
           IF i + Len(re.s) <= Len(s) /\ Slice(s, i, i + Len(re.s)) = re.s
           THEN <<i + Len(re.s)>> ELSE <<>>
      [] re.k = "cls" ->
           IF i < Len(s) /\ ((CharAt(s, i) \in re.set) # re.neg)
           THEN <<i + 1>> ELSE <<>>
      [] re.k = "seq" -> EndsSeq(re.rs, 1, s, i)
      [] re.k = "alt" -> EndsAlt(re.rs, 1, s, i)
      [] re.k = "star" ->
           LET once == SelectSeq(Ends(re.r, s, i), LAMBDA e : e > i)
               more == EndsFrom(re, s, once, 1)
           IN  IF re.lazy THEN <<i>> \o more ELSE more \o <<i>>
      [] re.k = "wb" ->
           IF IsWordAt(s, i - 1) # IsWordAt(s, i) THEN <<i>> ELSE <<>>
      [] re.k = "eos" ->
           IF i = Len(s) \/ (i = Len(s) - 1 /\ CharAt(s, i) = "\n")
           THEN <<i>> ELSE <<>>

(***************************************************************************)
(* tokens.py: TokenCategory and TokenType                                  *)
(***************************************************************************)
\* the members of TokenCategory, in declaration order (name = value)
TokenCategory ==
    <<"KEYWORD", "SEPARATOR", "OPERATOR", "LITERAL", "COMMENT", "WHITESPACE",
      "IDENTIFIER", "UNKNOWN">>

\* One member of TokenType: its name, its value (the pattern text as written
\* in the raw string literal) and the expression that pattern denotes.
T(n, v, r) == [name |-> n, value |-> v, re |-> r]
\* a pattern whose text escapes nothing denotes its own text
P(n, v) == T(n, v, Lit(v))
\* \bword\b
KW(n, w) == T(n, "\\b" \o w \o "\\b", Cat(<<WordBoundary, Lit(w), WordBoundary>>))

IdStart == Cls(Lower \cup Upper \cup {"_"})
IdCont == Cls(WordChars)
Digit == Cls(Digits)
Escape == Cat(<<Lit("\\"), AnyChar>>)
Exponent == Cat(<<Cls({"e", "E"}), Opt(Cls({"+", "-"})), Plus(Digit)>>)

\* the members of TokenType, in declaration order
TokenType == <<
    T("COMMENT_MULTI_LINE", "\\|-(.|\\n)*?-\\|",
      Cat(<<Lit("|-"), LazyStar(Alt(<<AnyChar, Lit("\n")>>)), Lit("-|")>>)),
    T("COMMENT_SINGLE_LINE", "\\|.*", Cat(<<Lit("|"), Star(AnyChar)>>)),
    KW("KEYWORD_IF", "if"),
    KW("KEYWORD_ELIF", "elif"),
    KW("KEYWORD_ELSE", "else"),
    KW("KEYWORD_BREAK", "break"),
    KW("KEYWORD_CONTINUE", "continue"),
    KW("KEYWORD_RETURN", "return"),
    KW("KEYWORD_LOOP", "loop"),
    KW("KEYWORD_FOR", "for"),
    KW("KEYWORD_WHILE", "while"),
    KW("KEYWORD_DO", "do"),
    KW("KEYWORD_USE", "use"),
    KW("KEYWORD_AS", "as"),
    KW("KEYWORD_ASYNC", "async"),
    KW("KEYWORD_AWAIT", "await"),
    KW("KEYWORD_SELF", "Self"),
    KW("KEYWORD_IN", "in"),
    P("OPERATOR_BINARY_NIMPLY", "bNIMPLY"),
    P("OPERATOR_BINARY_IMPLY", "bIMPLY"),
    P("OPERATOR_BINARY_XNOR", "bXNOR"),
    P("OPERATOR_BINARY_NAND", "bNAND"),
    P("OPERATOR_BINARY_XOR", "bXOR"),
    P("OPERATOR_BINARY_NOR", "bNOR"),
    P("OPERATOR_BINARY_NOT", "bNOT"),
    P("OPERATOR_BINARY_AND", "bAND"),
    P("OPERATOR_BINARY_OR", "bOR"),
    P("OPERATOR_LOGICAL_NIMPLY", "NIMPLY"),
    P("OPERATOR_LOGICAL_IMPLY", "IMPLY"),
    P("OPERATOR_LOGICAL_XNOR", "XNOR"),
    P("OPERATOR_LOGICAL_NAND", "NAND"),
    P("OPERATOR_LOGICAL_XOR", "XOR"),
    P("OPERATOR_LOGICAL_NOR", "NOR"),
    P("OPERATOR_LOGICAL_NOT", "NOT"),
    P("OPERATOR_LOGICAL_AND", "AND"),
    P("OPERATOR_LOGICAL_OR", "OR"),
    P("SEPARATOR_ARROW", "->"),
    P("OPERATOR_RELATIONAL_LOWER_EQUAL", "<="),
    P("OPERATOR_RELATIONAL_GREATER_EQUAL", ">="),
    P("OPERATOR_RELATIONAL_EQUAL", "=="),
    P("OPERATOR_RELATIONAL_NOT_EQUAL", "!="),
    P("OPERATOR_RELATIONAL_LOWER", "<"),
    P("OPERATOR_RELATIONAL_GREATER", ">"),
    T("OPERATOR_ASSIGNMENT_ADDITION", "\\+=", Lit("+=")),
    P("OPERATOR_ASSIGNMENT_SUBTRACTION", "-="),
    T("OPERATOR_ASSIGNMENT_MULTIPLICATION", "\\*=", Lit("*=")),
    P("OPERATOR_ASSIGNMENT_DIVISION", "/="),
    P("OPERATOR_ASSIGNMENT_MODULO", "%="),
    T("OPERATOR_ASSIGNMENT_EXPONENTIATION", "\\^=", Lit("^=")),
    P("OPERATOR_ASSIGNMENT", "="),
    T("OPERATOR_ARITHMETIC_ADDITION", "\\+", Lit("+")),
    P("OPERATOR_ARITHMETIC_SUBTRACTION", "-"),
    T("OPERATOR_ARITHMETIC_MULTIPLICATION", "\\*", Lit("*")),
    P("OPERATOR_ARITHMETIC_DIVISION", "/"),
    P("OPERATOR_ARITHMETIC_MODULO", "%"),
    T("OPERATOR_ARITHMETIC_EXPONENTIATION", "\\^", Lit("^")),
    T("LITERAL_STRING_RAW", "r\"([^\"])*\"",
      Cat(<<Lit("r\""), Star(NotCls({"\""})), Lit("\"")>>)),
    T("LITERAL_STRING_BYTE", "b\"([^\"\\\\]|\\\\.)*\"",
      Cat(<<Lit("b\""), Star(Alt(<<NotCls({"\"", "\\"}), Escape>>)), Lit("\"")>>)),
    T("LITERAL_STRING", "\"([^\"\\\\]|\\\\.)*\"",
      Cat(<<Lit("\""), Star(Alt(<<NotCls({"\"", "\\"}), Escape>>)), Lit("\"")>>)),
    T("LITERAL_CHAR", "'([^'\\\\]|\\\\.)'",
      Cat(<<Lit("'"), Alt(<<NotCls({"'", "\\"}), Escape>>), Lit("'")>>)),
    T("LITERAL_NUMBER_HEX", "0[xX][0-9a-fA-F]+",
      Cat(<<Lit("0"), Cls({"x", "X"}), Plus(Cls(HexDigits))>>)),
    T("LITERAL_NUMBER_BINARY", "0[bB][01]+",
      Cat(<<Lit("0"), Cls({"b", "B"}), Plus(Cls({"0", "1"}))>>)),
    T("LITERAL_NUMBER_FLOAT",
      "(\\d+\\.\\d*|\\.\\d+)([eE][+-]?\\d+)?|\\d+[eE][+-]?\\d+",
      Alt(<<Cat(<<Alt(<<Cat(<<Plus(Digit), Lit("."), Star(Digit)>>),
                        Cat(<<Lit("."), Plus(Digit)>>)>>),
                  Opt(Exponent)>>),
            Cat(<<Plus(Digit), Exponent>>)>>)),
    T("LITERAL_NUMBER_INTEGER", "\\d(?:_?\\d)*",
      Cat(<<Digit, Star(Cat(<<Opt(Lit("_")), Digit>>))>>)),
    T("SEPARATOR_ELLIPSIS", "\\.\\.\\.", Lit("...")),
    P("SEPARATOR_DOUBLE_COLON", "::"),
    T("SEPARATOR_BRACKET_ROUND_OPEN", "\\(", Lit("(")),
    T("SEPARATOR_BRACKET_ROUND_CLOSED", "\\)", Lit(")")),
    T("SEPARATOR_BRACKET_SQUARE_OPEN", "\\[", Lit("[")),
    T("SEPARATOR_BRACKET_SQUARE_CLOSED", "\\]", Lit("]")),
    T("SEPARATOR_BRACKET_CURLY_OPEN", "\\{", Lit("{")),
    T("SEPARATOR_BRACKET_CURLY_CLOSED", "\\}", Lit("}")),
    P("SEPARATOR_COMMA", ","),
    T("SEPARATOR_PERIOD", "\\.", Lit(".")),
    P("SEPARATOR_EXCLAMATION_POINT", "!"),
    T("SEPARATOR_QUESTION_MARK", "\\?", Lit("?")),
    P("SEPARATOR_COLON", ":"),
    P("SEPARATOR_SEMICOLON", ";"),
    P("WHITESPACE_SPACE", " "),
    T("WHITESPACE_CHARACTER_TAB", "\\t", Lit("\t")),
    T("WHITESPACE_VERTICAL_TAB", "\\v", Lit(VT)),
    T("WHITESPACE_FORM_FEED", "\\f", Lit("\f")),
    T("WHITESPACE_CARRIAGE_RETURN", "\\r", Lit("\r")),
    T("WHITESPACE_LINE_FEED", "\\n", Lit("\n")),
    T("WHITESPACE_EOF", "$", EndAnchor),
    T("IDENTIFIER_MACRO", "[a-zA-Z_][a-zA-Z0-9_]*!",
      Cat(<<IdStart, Star(IdCont), Lit("!")>>)),
    T("IDENTIFIER_DECORATOR", "@[a-zA-Z_][a-zA-Z0-9_]*",
      Cat(<<Lit("@"), IdStart, Star(IdCont)>>)),
    T("IDENTIFIER_IDENTIFIER", "[a-zA-Z_][a-zA-Z0-9_]*",
      Cat(<<IdStart, Star(IdCont)>>))
  >>

TypeNames == {TokenType[i].name : i \in 1..Len(TokenType)}

\* str.startswith
StartsWith(s, prefix) ==
    Len(prefix) <= Len(s) /\ SubSeq(s, 1, Len(prefix)) = prefix

\* faulty variant: the member's name is compared with the category's name
\* for equality
CategoryOfName_by_equality(n) ==
    LET hits == {c \in 1..Len(TokenCategory) : n = TokenCategory[c]}
    IN  IF hits = {} THEN "UNKNOWN"
        ELSE TokenCategory[CHOOSE c \in hits : \A d \in hits : c <= d]

\* _get_category_map, applied to one member name: the first category whose
\* name is a prefix of the member's name, UNKNOWN when there is none
CategoryOfName(n) ==
    LET hits == {c \in 1..Len(TokenCategory) : StartsWith(n, TokenCategory[c])}
    IN  IF hits = {} THEN "UNKNOWN"
        ELSE TokenCategory[CHOOSE c \in hits : \A d \in hits : c <= d]

(***************************************************************************)
(* lexer.py: the master regex                                              *)
(***************************************************************************)
MetaChars == {".", "^", "$", "*", "+", "?", "{", "}", "[", "]", "\\", "|", "(", ")"}

_is_literal_pattern(pattern) ==
    \A i \in 1..Len(pattern) : SubSeq(pattern, i, i) \notin MetaChars

\* faulty variant: an ascending stable sort, shortest first
SortByLengthAsc(ts) ==
    LET Before(j, i) ==
            \/ Len(ts[j].value) < Len(ts[i].value)
            \/ Len(ts[j].value) = Len(ts[i].value) /\ j < i
        Rank(i) == Cardinality({j \in 1..Len(ts) : Before(j, i)}) + 1
    IN  [k \in 1..Len(ts) |-> ts[CHOOSE i \in 1..Len(ts) : Rank(i) = k]]

\* list.sort(key=len(value), reverse=True): a stable sort, longest first.  An
\* element comes after every longer element and after the elements of its own
\* length that stood before it in the list.
SortByLengthDesc(ts) ==
    LET Before(j, i) ==
            \/ Len(ts[j].value) > Len(ts[i].value)
            \/ Len(ts[j].value) = Len(ts[i].value) /\ j < i
        Rank(i) == Cardinality({j \in 1..Len(ts) : Before(j, i)}) + 1
    IN  [k \in 1..Len(ts) |-> ts[CHOOSE i \in 1..Len(ts) : Rank(i) = k]]

\* faulty variant: the regex patterns come in reverse declaration order
SortedTokens_patterns_reversed ==
    LET literals == SelectSeq(TokenType, LAMBDA t : _is_literal_pattern(t.value))
        patterns == SelectSeq(TokenType, LAMBDA t : ~_is_literal_pattern(t.value))
    IN  SortByLengthDesc(literals)
            \o [i \in 1..Len(patterns) |-> patterns[Len(patterns) - i + 1]]

\* faulty variant: the end-of-input anchor is the first of the regex patterns
SortedTokens_eof_first ==
    LET literals == SelectSeq(TokenType, LAMBDA t : _is_literal_pattern(t.value))
        patterns == SelectSeq(TokenType, LAMBDA t : ~_is_literal_pattern(t.value))
    IN  SortByLengthDesc(literals)
            \o SelectSeq(patterns, LAMBDA t : t.name = "WHITESPACE_EOF")
            \o SelectSeq(patterns, LAMBDA t : t.name # "WHITESPACE_EOF")

\* _compile_master_regex: the order of the alternatives of the master regex
SortedTokens ==
    LET literals == SelectSeq(TokenType, LAMBDA t : _is_literal_pattern(t.value))
        patterns == SelectSeq(TokenType, LAMBDA t : ~_is_literal_pattern(t.value))
    IN  SortByLengthDesc(literals) \o patterns

NoMatch == [type |-> "", end |-> -1]

\* self._master_regex.match(source, pos): the first alternative, from the n-th
\* on, that matches at pos, with the end of its match (lastgroup and
\* match.end())
MatchFrom(n, s, pos) ==
    LET hits == {m \in n..Len(SortedTokens) : Ends(SortedTokens[m].re, s, pos) # <<>>}
    IN  IF hits = {} THEN NoMatch
        ELSE LET first == CHOOSE m \in hits : \A other \in hits : m <= other
             IN  [type |-> SortedTokens[first].name,
                  end |-> Ends(SortedTokens[first].re, s, pos)[1]]

MasterMatch(s, pos) == MatchFrom(1, s, pos)

(***************************************************************************)
(* State                                                                   *)
(***************************************************************************)
VARIABLES
    lexer,      \* the Lexer instance: its slots _source, _strict_mode,
                \* _ignore_types, _pos, _line, _col, _token_buffer
    matched,    \* matched[p + 1] = MasterMatch(source, p): the master regex is a
                \* pure function of the source and the offset, looked up here
    snapshot,   \* the LexerSnapshot the caller holds, or NoSnapshot
    op,         \* the last call made on the lexer, its argument and
    arg,        \*   what it returned or raised
    result,
    repeated,   \* the last call is a peek that repeats the call before it
    returned,   \* what __next__ returned or raised since `since`
    since,      \* "init", or "restore" after the last restore_snapshot
    rewound,    \* the last restore_snapshot changed the lexer: calls had moved
                \*   it on since the snapshot was taken
    promise,    \* after a restore: what __next__ was due to produce, call after
                \*   call, at the point the restored snapshot was taken
    snapFuture, \* the same, for the snapshot the caller holds
    peeked,     \* peeked[i]: what a peek has shown for the i-th coming
                \*   __next__ call, Unseen when none has
    due,        \* after a __next__ call: what a peek had shown for that very
                \*   call, Unseen when none had
    pc,         \* where the call in progress stands: "idle" between calls,
                \*   "peek" at the head of peek's loop, "scan" at the head of
                \*   the scan loop
    cache,      \* the lru_cache of _compile_master_regex: "empty" or "compiled"
    compilations, \* how many times the body of _compile_master_regex has run
    thread      \* thread[t]: where thread t stands in constructing a Lexer
                \*   (pc) and how many it has constructed (built)

vars == <<lexer, matched, snapshot, op, arg, result, repeated, returned, since,
          rewound, promise, snapFuture, peeked, due, pc, cache, compilations,
          thread>>

_START_POS == 0
_START_LINE == 1
_START_COL == 1

(***************************************************************************)
(* Results of a call                                                       *)
(***************************************************************************)
Token(type, text, position, line, column) ==
    [type |-> type, text |-> text, position |-> position, line |-> line,
     column |-> column]
DebugInfo(offending_text, position, line, column, source_line) ==
    [offending_text |-> offending_text, position |-> position, line |-> line,
     column |-> column, source_line |-> source_line]

Returned(t) == [kind |-> "token", tok |-> t]
None == [kind |-> "none"]
StopIteration == [kind |-> "stop"]
UnexpectedCharacterError(info) == [kind |-> "error", info |-> info]
Outcome(self, res) == [self |-> self, res |-> res]

(***************************************************************************)
(* str helpers                                                             *)
(***************************************************************************)
\* text.count(c)
Count(text, c) == Cardinality({i \in 1..Len(text) : SubSeq(text, i, i) = c})
\* text.rfind(c, lo, hi): the last offset in lo..hi-1 holding c, or -1
RFind(text, c, lo, hi) ==
    LET at == {i \in lo..(hi - 1) : CharAt(text, i) = c}
    IN  IF at = {} THEN -1 ELSE CHOOSE i \in at : \A j \in at : j <= i
\* text.find(c, lo): the first offset >= lo holding c, or -1
Find(text, c, lo) ==
    LET at == {i \in lo..(Len(text) - 1) : CharAt(text, i) = c}
    IN  IF at = {} THEN -1 ELSE CHOOSE i \in at : \A j \in at : i <= j

(***************************************************************************)
(* lexer.py: class Lexer                                                   *)
(***************************************************************************)
\* Lexer.__init__
NewLexer(source_code, ignore_types, strict) ==
    [_source |-> source_code, _strict_mode |-> strict,
     _ignore_types |-> ignore_types,
     _pos |-> _START_POS, _line |-> _START_LINE, _col |-> _START_COL,
     _token_buffer |-> <<>>]

\* A member of an enum, as the skip set holds it.  TokenType and TokenCategory
\* are both StrEnum: a member hashes and compares as its value, the pattern
\* text for a TokenType and the category name for a TokenCategory.
KindMember(n) == [enum |-> "TokenType", name |-> n]
CategoryMember(n) == [enum |-> "TokenCategory", name |-> n]
TypeOfName(n) == TokenType[CHOOSE i \in 1..Len(TokenType) : TokenType[i].name = n]
EnumValue(m) == IF m.enum = "TokenType" THEN TypeOfName(m.name).value ELSE m.name

\* faulty variant: the last character is taken for the end of input
_is_eof_one_early(self) == self._pos >= Len(self._source) - 1

_is_eof(self) == self._pos >= Len(self._source)

\* faulty variant: the column is not reset after a newline
_update_location_no_reset(self, text) ==
    [self EXCEPT !._line = @ + Count(text, "\n"), !._col = @ + Len(text)]

_update_location_fast(self, text) ==
    IF Count(text, "\n") = 0
    THEN [self EXCEPT !._col = @ + Len(text)]
    ELSE [self EXCEPT !._line = @ + Count(text, "\n"),
                      !._col = Len(text) - RFind(text, "\n", 0, Len(text))]

\* sys.intern returns an equal string: no effect on the text
_intern_if_eligible(text, kind) == text

\* _construct_token for a match m at the cursor: the lexer past the match, and
\* the token
_construct_token(self, m) ==
    LET text == Slice(self._source, self._pos, m.end)
        moved == _update_location_fast([self EXCEPT !._pos = m.end], text)
    IN  [self |-> moved,
         tok |-> Token(m.type, _intern_if_eligible(text, m.type),
                       self._pos, self._line, self._col)]

\* faulty variant: the token's category is looked up in the skip set
_should_skip_by_category(self, token) ==
    CategoryMember(CategoryOfName(token.type)) \in self._ignore_types

\* token.type in self._ignore_types
_should_skip(self, token) ==
    \E member \in self._ignore_types :
        EnumValue(member) = EnumValue(KindMember(token.type))

\* faulty variant: the line starts at the newline, not after it
_create_visual_error_from_newline(self) ==
    LET line_start == RFind(self._source, "\n", 0, self._pos)
        found == Find(self._source, "\n", self._pos)
        line_end == IF found = -1 THEN Len(self._source) ELSE found
    IN  UnexpectedCharacterError(
            DebugInfo(CharAt(self._source, self._pos), self._pos, self._line,
                      self._col,
                      Slice(self._source, IF line_start < 0 THEN 0 ELSE line_start,
                            line_end)))

_create_visual_error(self) ==
    LET line_start == RFind(self._source, "\n", 0, self._pos) + 1
        found == Find(self._source, "\n", self._pos)
        line_end == IF found = -1 THEN Len(self._source) ELSE found
    IN  UnexpectedCharacterError(
            DebugInfo(CharAt(self._source, self._pos), self._pos, self._line,
                      self._col, Slice(self._source, line_start, line_end)))

\* faulty variant: the column moves on, the offset does not
_handle_lexical_error_keeps_offset(self) ==
    [self EXCEPT !._col = @ + 1]

\* faulty variant: the skipped character does not count for the column
_handle_lexical_error_keeps_column(self) ==
    [self EXCEPT !._pos = self._pos + 1]

\* the recovery branch of _handle_lexical_error: skip one character
_handle_lexical_error(self) ==
    [_update_location_fast(self, CharAt(self._source, self._pos))
        EXCEPT !._pos = self._pos + 1]

\* what one pass through the body of the scan loop ends in when it neither
\* returns nor raises
Continue == [kind |-> "continue"]

\* Lexer._scan_next_valid_token, one pass through the body of `while True`
_scan_iteration(self) ==
    IF _is_eof(self) THEN Outcome(self, StopIteration)
    ELSE LET m == matched[self._pos + 1]
         IN  IF m.end = -1
             THEN IF self._strict_mode
                  THEN Outcome(self, _create_visual_error(self))
                  ELSE Outcome(_handle_lexical_error(self), Continue)
             ELSE LET c == _construct_token(self, m)
                  IN  IF _should_skip(c.self, c.tok)
                      THEN Outcome(c.self, Continue)
                      ELSE Outcome(c.self, Returned(c.tok))

\* faulty variant: in strict mode the character is skipped before the error
\* is raised
RECURSIVE _scan_raises_past_character(_)
_scan_raises_past_character(self) ==
    IF _is_eof(self) THEN Outcome(self, StopIteration)
    ELSE LET m == matched[self._pos + 1]
         IN  IF m.end = -1
             THEN IF self._strict_mode
                  THEN Outcome(_handle_lexical_error(self), _create_visual_error(self))
                  ELSE _scan_raises_past_character(_handle_lexical_error(self))
             ELSE LET c == _construct_token(self, m)
                  IN  IF _should_skip(c.self, c.tok)
                      THEN _scan_raises_past_character(c.self)
                      ELSE Outcome(c.self, Returned(c.tok))

\* faulty variant: a skipped token moves the offset but not the line and column
RECURSIVE _scan_skip_loses_location(_)
_scan_skip_loses_location(self) ==
    IF _is_eof(self) THEN Outcome(self, StopIteration)
    ELSE LET m == matched[self._pos + 1]
         IN  IF m.end = -1
             THEN IF self._strict_mode
                  THEN Outcome(self, _create_visual_error(self))
                  ELSE _scan_skip_loses_location(_handle_lexical_error(self))
             ELSE LET c == _construct_token(self, m)
                  IN  IF _should_skip(c.self, c.tok)
                      THEN _scan_skip_loses_location([self EXCEPT !._pos = m.end])
                      ELSE Outcome(c.self, Returned(c.tok))

RECURSIVE _scan_next_valid_token(_)
_scan_next_valid_token(self) ==
    IF _is_eof(self) THEN Outcome(self, StopIteration)
    ELSE LET m == matched[self._pos + 1]
         IN  IF m.end = -1
             THEN IF self._strict_mode
                  THEN Outcome(self, _create_visual_error(self))
                  ELSE _scan_next_valid_token(_handle_lexical_error(self))
             ELSE LET c == _construct_token(self, m)
                  IN  IF _should_skip(c.self, c.tok)
                      THEN _scan_next_valid_token(c.self)
                      ELSE Outcome(c.self, Returned(c.tok))

\* faulty variant: the buffer is popped at its right end
__next__pops_right(self) ==
    IF self._token_buffer # <<>>
    THEN Outcome([self EXCEPT !._token_buffer = SubSeq(@, 1, Len(@) - 1)],
                 Returned(self._token_buffer[Len(self._token_buffer)]))
    ELSE _scan_next_valid_token(self)

\* faulty variant: the buffer is not looked at
__next__scan_only(self) == _scan_next_valid_token(self)

\* Lexer.__next__
__next__(self) ==
    IF self._token_buffer # <<>>
    THEN Outcome([self EXCEPT !._token_buffer = Tail(@)],
                 Returned(Head(self._token_buffer)))
    ELSE _scan_next_valid_token(self)

\* faulty variant: the token shown is taken out of the buffer
RECURSIVE peek_consumes(_, _)
peek_consumes(self, offset) ==
    IF Len(self._token_buffer) <= offset
    THEN LET scan == _scan_next_valid_token(self)
         IN  CASE scan.res.kind = "token" ->
                    peek_consumes(
                        [scan.self EXCEPT !._token_buffer = Append(@, scan.res.tok)],
                        offset)
               [] scan.res.kind = "stop" -> Outcome(scan.self, None)
               [] OTHER -> scan
    ELSE Outcome([self EXCEPT !._token_buffer =
                      SubSeq(@, 1, offset) \o SubSeq(@, offset + 2, Len(@))],
                 Returned(self._token_buffer[offset + 1]))

\* faulty variant: the loop runs until one token more than asked for is
\* buffered
RECURSIVE peek_scans_one_more(_, _)
peek_scans_one_more(self, offset) ==
    IF Len(self._token_buffer) <= offset + 1
    THEN LET scan == _scan_next_valid_token(self)
         IN  CASE scan.res.kind = "token" ->
                    peek_scans_one_more(
                        [scan.self EXCEPT !._token_buffer = Append(@, scan.res.tok)],
                        offset)
               [] scan.res.kind = "stop" -> Outcome(scan.self, None)
               [] OTHER -> scan
    ELSE Outcome(self, Returned(self._token_buffer[offset + 1]))

\* faulty variant: one scan at most, None when the buffer is still short
peek_scans_once(self, offset) ==
    IF Len(self._token_buffer) <= offset
    THEN LET scan == _scan_next_valid_token(self)
         IN  CASE scan.res.kind = "token" ->
                    LET more == [scan.self EXCEPT
                                     !._token_buffer = Append(@, scan.res.tok)]
                    IN  IF Len(more._token_buffer) <= offset
                        THEN Outcome(more, None)
                        ELSE Outcome(more, Returned(more._token_buffer[offset + 1]))
               [] scan.res.kind = "stop" -> Outcome(scan.self, None)
               [] OTHER -> scan
    ELSE Outcome(self, Returned(self._token_buffer[offset + 1]))

\* faulty variant: a scanned token is put at the left end of the buffer
RECURSIVE peek_appends_left(_, _)
peek_appends_left(self, offset) ==
    IF Len(self._token_buffer) <= offset
    THEN LET scan == _scan_next_valid_token(self)
         IN  CASE scan.res.kind = "token" ->
                    peek_appends_left(
                        [scan.self EXCEPT !._token_buffer = <<scan.res.tok>> \o @],
                        offset)
               [] scan.res.kind = "stop" -> Outcome(scan.self, None)
               [] OTHER -> scan
    ELSE Outcome(self, Returned(self._token_buffer[offset + 1]))

\* Lexer.peek
RECURSIVE peek(_, _)
peek(self, offset) ==
    IF Len(self._token_buffer) <= offset
    THEN LET scan == _scan_next_valid_token(self)
         IN  CASE scan.res.kind = "token" ->
                    peek([scan.self EXCEPT !._token_buffer = Append(@, scan.res.tok)],
                         offset)
               [] scan.res.kind = "stop" -> Outcome(scan.self, None)
               [] OTHER -> scan
    ELSE Outcome(self, Returned(self._token_buffer[offset + 1]))

\* LexerSnapshot
LexerSnapshot(p, l, c, buffer) == [pos |-> p, line |-> l, col |-> c, buffer |-> buffer]
NoSnapshot == [pos |-> -1]

\* faulty variant: the snapshot does not take the buffered tokens along
create_snapshot_drops_buffer(self) ==
    LexerSnapshot(self._pos, self._line, self._col, <<>>)

create_snapshot(self) ==
    LexerSnapshot(self._pos, self._line, self._col, self._token_buffer)

\* faulty variant: the buffer is not restored
restore_snapshot_keeps_buffer(self, snap) ==
    [self EXCEPT !._pos = snap.pos, !._line = snap.line, !._col = snap.col]

restore_snapshot(self, snap) ==
    [self EXCEPT !._pos = snap.pos, !._line = snap.line, !._col = snap.col,
                 !._token_buffer = snap.buffer]

\* LexerError.__str__: the caret line, before the message
CaretVisual(info) ==
    LET caret_offset == IF info.column - 1 > 0 THEN info.column - 1 ELSE 0
        RECURSIVE Spaces(_)
        Spaces(n) == IF n = 0 THEN "" ELSE " " \o Spaces(n - 1)
    IN  Spaces(caret_offset) \o "^"

(***************************************************************************)
(* What the caller observes                                                *)
(***************************************************************************)
\* repeated __next__ calls from `self` on: the tokens returned, then the
\* StopIteration or the error that ends them
RECURSIVE Drain(_)
Drain(self) ==
    LET o == __next__(self)
    IN  IF o.res.kind = "token" THEN <<o.res>> \o Drain(o.self) ELSE <<o.res>>

\* the log of __next__ results: every token, and an end (StopIteration or an
\* error) once for as long as it repeats
Logged(log, res) ==
    IF res.kind # "token" /\ log # <<>> /\ log[Len(log)] = res THEN log
    ELSE Append(log, res)

Unseen == [kind |-> "unseen"]

\* peek(offset) has shown res for the (offset + 1)-th coming __next__ call
Shown(seen, offset, res) ==
    IF res.kind # "token" THEN seen
    ELSE [i \in 1..(IF Len(seen) > offset + 1 THEN Len(seen) ELSE offset + 1) |->
            IF i <= Len(seen) /\ seen[i] # Unseen THEN seen[i]
            ELSE IF i = offset + 1 THEN res ELSE Unseen]

(***************************************************************************)
(* Bounds and inputs                                                       *)
(***************************************************************************)
MaxLen == 2
MaxPeek == 1

\* an identifier character, a line feed, a character no pattern matches, and
\* the quote: alone it matches nothing, a pair of them is a string literal
\* that may span lines
Alphabet == {"x", "\n", "#", "\""}

RECURSIVE Strings(_)
Strings(n) ==
    IF n = 0 THEN {""}
    ELSE LET shorter == Strings(n - 1)
         IN  shorter \cup {s \o c : s \in shorter, c \in Alphabet}

\* sources of the documented scenarios, longer than MaxLen: the arithmetic
\* line, the recovered '#', a comment over two lines, an error on a second
\* line, and a string over two lines followed by a skipped space and '#'
Scenarios == {"10 + 20", "# x", "|-\n-|x", "x\n #y", "\"\n\" #y"}

Sources == Strings(MaxLen) \cup Scenarios

\* the whitespace kinds of the sources above
WhitespaceKinds ==
    {KindMember("WHITESPACE_SPACE"), KindMember("WHITESPACE_LINE_FEED")}

\* the threads of the process that construct Lexer instances
MaxThreads == 3
Threads == 1..MaxThreads
\* the Lexer instances one thread constructs at most
MaxLexers == 2
\* a thread that has constructed its Lexer
Constructed == [pc |-> "done", built |-> 1]

\* no skip set, the whitespace kinds, kinds that are not whitespace, and the
\* category WHITESPACE passed where kinds are expected
SkipSets ==
    { {},
      WhitespaceKinds,
      {KindMember("IDENTIFIER_IDENTIFIER"), KindMember("LITERAL_STRING")},
      {CategoryMember("WHITESPACE")} }

(***************************************************************************)
(* The state machine: a caller drives one Lexer                            *)
(***************************************************************************)
Init ==
    \E src \in Sources :
        /\ matched = [p \in 1..Len(src) |-> MasterMatch(src, p - 1)]
        /\ \E strict \in BOOLEAN, ignore_types \in SkipSets :
               lexer = NewLexer(src, ignore_types, strict)
        /\ snapshot = NoSnapshot
        /\ op = "init"
        /\ arg = 0
        /\ result = None
        /\ repeated = FALSE
        /\ returned = <<>>
        /\ since = "init"
        /\ rewound = FALSE
        /\ promise = <<>>
        /\ snapFuture = <<>>
        /\ peeked = <<>>
        /\ due = Unseen
        /\ pc = "idle"
        /\ cache = "compiled"
        /\ compilations = 1
        /\ thread = [t \in Threads |-> Constructed]

CallNext ==
    LET o == __next__(lexer)
    IN  /\ lexer' = o.self
        /\ result' = o.res
        /\ op' = "next"
        /\ arg' = 0
        /\ repeated' = FALSE
        /\ returned' = Logged(returned, o.res)
        /\ peeked' = IF peeked = <<>> THEN <<>> ELSE Tail(peeked)
        /\ due' = IF peeked = <<>> THEN Unseen ELSE Head(peeked)
        /\ UNCHANGED <<matched, snapshot, since, rewound, promise, snapFuture>>
        /\ UNCHANGED <<pc, cache, compilations, thread>>

CallPeek(offset) ==
    LET o == peek(lexer, offset)
    IN  /\ lexer' = o.self
        /\ result' = o.res
        /\ op' = "peek"
        /\ arg' = offset
        /\ repeated' = (op = "peek" /\ arg = offset)
        /\ peeked' = Shown(peeked, offset, o.res)
        /\ due' = Unseen
        /\ UNCHANGED <<matched, snapshot, returned, since, rewound, promise,
                       snapFuture>>
        /\ UNCHANGED <<pc, cache, compilations, thread>>

CallCreateSnapshot ==
    /\ snapshot' = create_snapshot(lexer)
    /\ snapFuture' = Drain(lexer)
    /\ result' = None
    /\ op' = "create_snapshot"
    /\ arg' = 0
    /\ repeated' = FALSE
    /\ due' = Unseen
    /\ UNCHANGED <<lexer, matched, returned, since, rewound, promise, peeked>>
    /\ UNCHANGED <<pc, cache, compilations, thread>>

CallRestoreSnapshot ==
    /\ snapshot # NoSnapshot
    /\ lexer' = restore_snapshot(lexer, snapshot)
    /\ result' = None
    /\ op' = "restore_snapshot"
    /\ arg' = 0
    /\ repeated' = FALSE
    /\ returned' = <<>>
    /\ since' = "restore"
    /\ rewound' = (create_snapshot(lexer) # snapshot)
    /\ promise' = snapFuture
    /\ peeked' = <<>>
    /\ due' = Unseen
    /\ UNCHANGED <<matched, snapshot, snapFuture>>
    /\ UNCHANGED <<pc, cache, compilations, thread>>

Next ==
    \/ CallNext
    \/ \E offset \in 0..MaxPeek : CallPeek(offset)
    \/ CallCreateSnapshot
    \/ CallRestoreSnapshot

Spec == Init /\ [][Next]_vars

(***************************************************************************)
(* The same calls, one pass of a loop at a time                            *)
(***************************************************************************)
\* the result of a call that has not returned yet
Pending == [kind |-> "pending"]

\* __next__ is called: a buffered token is returned at once, else the scan
\* loop is entered
StartNext ==
    /\ pc = "idle"
    /\ op' = "next"
    /\ arg' = 0
    /\ IF lexer._token_buffer # <<>>
       THEN LET o == __next__(lexer)
            IN  /\ lexer' = o.self
                /\ result' = o.res
                /\ returned' = Logged(returned, o.res)
                /\ pc' = "idle"
       ELSE /\ pc' = "scan"
            /\ result' = Pending
            /\ UNCHANGED <<lexer, returned>>
    /\ UNCHANGED <<matched, snapshot, repeated, since, rewound, promise,
                   snapFuture, peeked, due, cache, compilations, thread>>

\* peek(offset) is called
StartPeek(offset) ==
    /\ pc = "idle"
    /\ op' = "peek"
    /\ arg' = offset
    /\ pc' = "peek"
    /\ result' = Pending
    /\ UNCHANGED <<lexer, matched, snapshot, repeated, returned, since, rewound,
                   promise, snapFuture, peeked, due, cache, compilations, thread>>

\* the head of peek's loop: scan once more, or return the buffered token
PeekLoop ==
    /\ pc = "peek"
    /\ IF Len(lexer._token_buffer) <= arg
       THEN pc' = "scan" /\ UNCHANGED result
       ELSE pc' = "idle" /\ result' = Returned(lexer._token_buffer[arg + 1])
    /\ UNCHANGED <<lexer, matched, snapshot, op, arg, repeated, returned, since,
                   rewound, promise, snapFuture, peeked, due, cache, compilations,
                   thread>>

\* one pass through the body of the scan loop, on behalf of __next__ or peek
ScanIterate ==
    /\ pc = "scan"
    /\ LET it == _scan_iteration(lexer)
       IN  CASE it.res = Continue ->
                  /\ lexer' = it.self
                  /\ pc' = "scan"
                  /\ UNCHANGED <<result, returned>>
             [] it.res.kind = "token" /\ op = "peek" ->
                  /\ lexer' = [it.self EXCEPT !._token_buffer = Append(@, it.res.tok)]
                  /\ pc' = "peek"
                  /\ UNCHANGED <<result, returned>>
             [] it.res = StopIteration /\ op = "peek" ->
                  /\ lexer' = it.self
                  /\ pc' = "idle"
                  /\ result' = None
                  /\ UNCHANGED returned
             [] it.res.kind = "error" /\ op = "peek" ->
                  /\ lexer' = it.self
                  /\ pc' = "idle"
                  /\ result' = it.res
                  /\ UNCHANGED returned
             [] OTHER ->
                  /\ lexer' = it.self
                  /\ pc' = "idle"
                  /\ result' = it.res
                  /\ returned' = Logged(returned, it.res)
    /\ UNCHANGED <<matched, snapshot, op, arg, repeated, since, rewound, promise,
                   snapFuture, peeked, due, cache, compilations, thread>>

ScanNext ==
    \/ StartNext
    \/ \E offset \in 0..MaxPeek : StartPeek(offset)
    \/ PeekLoop
    \/ ScanIterate

\* a call that has started runs on (the interpreter executes it), and the
\* caller keeps calling __next__
ScanSpec ==
    /\ Init
    /\ [][ScanNext]_vars
    /\ WF_vars(PeekLoop)
    /\ WF_vars(ScanIterate)
    /\ SF_vars(StartNext)

(***************************************************************************)
(* Properties                                                              *)
(***************************************************************************)
Source == lexer._source
Buffer == lexer._token_buffer

IsPrefix(a, b) == Len(a) <= Len(b) /\ SubSeq(b, 1, Len(a)) = a
Ended(log) == log # <<>> /\ log[Len(log)].kind # "token"

\* the tokens of a log of results, in order
TokensOf(log) ==
    LET toks == SelectSeq(log, LAMBDA r : r.kind = "token")
    IN  [i \in 1..Len(toks) |-> toks[i].tok]
ReturnedTokens == TokensOf(returned)

RECURSIVE ConcatText(_)
ConcatText(toks) ==
    IF toks = <<>> THEN "" ELSE Head(toks).text \o ConcatText(Tail(toks))

\* every token the caller has been handed or that waits in the buffer
KnownTokens ==
    {ReturnedTokens[i] : i \in 1..Len(ReturnedTokens)}
        \cup {Buffer[i] : i \in 1..Len(Buffer)}
        \cup (IF result.kind = "token" THEN {result.tok} ELSE {})

AtUnmatched(self) ==
    ~_is_eof(self) /\ matched[self._pos + 1].end = -1

\* C1: after restore_snapshot(S), whatever calls came between S and the
\* restore, the results of the following __next__ calls (tokens, then end of
\* input or the error) are those __next__ was due to produce at the point S
\* was taken.
C1_SnapshotRoundTrip ==
    since = "restore" => IsPrefix(returned, promise)

\* a snapshot holding a buffered token was restored after further calls had
\* moved the lexer on, and __next__ then ran to the end of input, over two
\* tokens or more
C1_Witness ==
    /\ since = "restore" /\ rewound
    /\ snapshot.pos >= 0 /\ snapshot.buffer # <<>>
    /\ promise = snapFuture
    /\ Len(returned) >= 3
    /\ returned = promise

C3_PeekIdempotent ==
    [][(op = "peek" /\ op' = "peek" /\ arg' = arg)
          => (result' = result /\ lexer' = lexer)]_vars

\* peek(1) was called twice in a row, having scanned two tokens
C3_Witness ==
    /\ op = "peek" /\ arg = 1 /\ repeated
    /\ result.kind = "token" /\ Len(Buffer) = 2
    /\ lexer._pos > 0

\* the returned tokens tile the source from offset 0 without gap or overlap
Contiguous(toks) ==
    /\ toks # <<>> => toks[1].position = 0
    /\ \A i \in 1..(Len(toks) - 1) :
           toks[i + 1].position = toks[i].position + Len(toks[i].text)

\* C4: strict mode, empty skip set: the tokens __next__ returns start at
\* offset 0 and each starts where the one before ended; when end of input is
\* reached the last one ends at len(source) and the texts concatenate to the
\* source.
C4_CoverageRoundTrip ==
    (lexer._strict_mode /\ lexer._ignore_types = {} /\ since = "init") =>
        /\ Contiguous(ReturnedTokens)
        /\ (Ended(returned) /\ returned[Len(returned)] = StopIteration) =>
               /\ ConcatText(ReturnedTokens) = Source
               /\ ReturnedTokens # <<>> =>
                      LET last == ReturnedTokens[Len(ReturnedTokens)]
                      IN  last.position + Len(last.text) = Len(Source)

\* a strict scan without skip set has reached the end of input over two
\* tokens or more, one of them spanning lines
C4_Witness ==
    /\ lexer._strict_mode /\ lexer._ignore_types = {} /\ since = "init"
    /\ Ended(returned) /\ returned[Len(returned)] = StopIteration
    /\ Len(ReturnedTokens) >= 2
    /\ \E i \in 1..Len(ReturnedTokens) :
           /\ Len(ReturnedTokens[i].text) > 1
           /\ Count(ReturnedTokens[i].text, "\n") > 0

\* C5: between two restores the tokens __next__ returns have strictly
\* increasing start offsets, whatever peek and create_snapshot calls come
\* between them.
C5_MonotonicConsumption ==
    \A i, j \in 1..Len(ReturnedTokens) :
        i < j => ReturnedTokens[i].position < ReturnedTokens[j].position

\* three tokens returned with lookahead pending and a snapshot taken
C5_Witness ==
    /\ Len(ReturnedTokens) >= 3
    /\ snapshot.pos > 0
    /\ Buffer # <<>>
    /\ op = "next"

\* line and column of offset p, counted by hand from the source
LineOf(src, p) == 1 + Count(Slice(src, 0, p), "\n")
ColumnOf(src, p) == p - RFind(src, "\n", 0, p)

\* C6: every token carries the line and column of its start offset as a
\* count of the newlines before it gives them.
C6_LocationTracking ==
    \A t \in KnownTokens :
        /\ t.line = LineOf(Source, t.position)
        /\ t.column = ColumnOf(Source, t.position)

\* recovery mode with whitespace skipped: a token spanning two lines was
\* returned and then a token that follows a skipped space and a skipped '#'
C6_Witness ==
    /\ ~lexer._strict_mode /\ lexer._ignore_types # {}
    /\ \E i, j \in 1..Len(ReturnedTokens) :
           /\ i < j
           /\ Count(ReturnedTokens[i].text, "\n") > 0
           /\ Len(ReturnedTokens[i].text) > 1
           /\ ReturnedTokens[j].line = 2 /\ ReturnedTokens[j].column > 1
           /\ ReturnedTokens[j].position
                  > ReturnedTokens[i].position + Len(ReturnedTokens[i].text) + 1

\* the line of the source around offset p: from after the nearest newline
\* before p up to the nearest newline at or after p
IsLineAround(src, p, text) ==
    \E a \in 0..p, b \in p..Len(src) :
        /\ text = Slice(src, a, b)
        /\ a = 0 \/ CharAt(src, a - 1) = "\n"
        /\ b = Len(src) \/ CharAt(src, b) = "\n"
        /\ \A i \in a..(b - 1) : CharAt(src, i) # "\n"

\* C7: strict mode: a scan that meets an offset where no pattern matches
\* raises UnexpectedCharacterError; the error carries that offset, its line
\* and column, the character there and the line of the source around it, and
\* the caret is drawn under that character.
C7_StrictDiagnostic ==
    /\ result.kind = "error" =>
           LET info == result.info
           IN  /\ lexer._strict_mode
               /\ info.position = lexer._pos /\ AtUnmatched(lexer)
               /\ info.offending_text = CharAt(Source, info.position)
               /\ info.line = LineOf(Source, info.position)
               /\ info.column = ColumnOf(Source, info.position)
               /\ IsLineAround(Source, info.position, info.source_line)
               /\ CharAt(info.source_line, info.column - 1) = info.offending_text
               /\ Len(CaretVisual(info)) = info.column
               /\ CharAt(CaretVisual(info), info.column - 1) = "^"
    /\ (lexer._strict_mode /\ AtUnmatched(lexer)) =>
           /\ _scan_next_valid_token(lexer).res.kind = "error"
           /\ peek(lexer, Len(Buffer)).res.kind = "error"
           /\ Buffer = <<>> => __next__(lexer).res.kind = "error"

\* an error raised on a second line, past its first column
C7_Witness ==
    /\ result.kind = "error"
    /\ result.info.line = 2 /\ result.info.column = 2
    /\ Len(result.info.source_line) = 3

\* the offsets the scan cursor finds unmatched, walking the source from 0
RECURSIVE UnmatchedFrom(_)
UnmatchedFrom(p) ==
    IF p >= Len(Source) THEN {}
    ELSE IF matched[p + 1].end = -1 THEN {p} \cup UnmatchedFrom(p + 1)
    ELSE UnmatchedFrom(matched[p + 1].end)

\* src[0:upto] without the characters at the offsets of `drop`
RECURSIVE Without(_, _, _)
Without(src, upto, drop) ==
    IF upto = 0 THEN ""
    ELSE Without(src, upto - 1, drop)
             \o (IF (upto - 1) \in drop THEN "" ELSE CharAt(src, upto - 1))

\* C8: recovery mode: no call raises UnexpectedCharacterError; at an offset
\* where no pattern matches the cursor moves on by one character (offset and
\* column plus one, line unchanged); with an empty skip set the returned
\* texts concatenate to the source without its unmatched characters.
C8_Recovery ==
    ~lexer._strict_mode =>
        /\ result.kind # "error"
        /\ AtUnmatched(lexer) =>
               LET after == _handle_lexical_error(lexer)
               IN  /\ after._pos = lexer._pos + 1
                   /\ after._col = lexer._col + 1
                   /\ after._line = lexer._line
                   /\ after._token_buffer = Buffer
        /\ (lexer._ignore_types = {} /\ since = "init") =>
               LET toks == ReturnedTokens
                   upto == IF Ended(returned) THEN Len(Source)
                           ELSE IF toks = <<>> THEN 0
                           ELSE toks[Len(toks)].position + Len(toks[Len(toks)].text)
               IN  ConcatText(toks) = Without(Source, upto, UnmatchedFrom(0))

\* a recovery scan without skip set has reached the end of input, having
\* skipped an unmatched character between two tokens
C8_Witness ==
    /\ ~lexer._strict_mode /\ lexer._ignore_types = {} /\ since = "init"
    /\ Ended(returned) /\ result = StopIteration
    /\ \E i \in 1..(Len(ReturnedTokens) - 1) :
           ReturnedTokens[i + 1].position
               > ReturnedTokens[i].position + Len(ReturnedTokens[i].text)

\* the skip set holds kinds only
SkipsKinds == \A member \in lexer._ignore_types : member.enum = "TokenType"

\* what a lexer with the same source and strictness and an empty skip set
\* returns, call after call
Unfiltered == Drain(NewLexer(Source, {}, lexer._strict_mode))

\* C9: with a skip set of kinds, __next__ returns what it returns with an
\* empty skip set less the tokens of those kinds, each token unchanged in
\* kind, text, position, line and column; "10 + 20" with the whitespace
\* kinds skipped gives three tokens at offsets 0, 3, 5 of line 1.
C9_SkipSetFiltering ==
    (SkipsKinds /\ since = "init") =>
        LET kept == SelectSeq(TokensOf(Unfiltered),
                              LAMBDA t : KindMember(t.type) \notin lexer._ignore_types)
        IN  /\ IsPrefix(ReturnedTokens, kept)
            /\ Ended(returned) =>
                   /\ ReturnedTokens = kept
                   /\ returned[Len(returned)] = Unfiltered[Len(Unfiltered)]
            /\ (Source = "10 + 20" /\ lexer._ignore_types = WhitespaceKinds
                    /\ Ended(returned)) =>
                   ReturnedTokens =
                       <<Token("LITERAL_NUMBER_INTEGER", "10", 0, 1, 1),
                         Token("OPERATOR_ARITHMETIC_ADDITION", "+", 3, 1, 4),
                         Token("LITERAL_NUMBER_INTEGER", "20", 5, 1, 6)>>

\* "10 + 20" scanned to the end with the whitespace kinds skipped
C9_Witness ==
    /\ Source = "10 + 20" /\ SkipsKinds /\ lexer._ignore_types = WhitespaceKinds
    /\ since = "init" /\ Ended(returned)
    /\ Len(ReturnedTokens) = 3

Literals == SelectSeq(TokenType, LAMBDA t : _is_literal_pattern(t.value))
LiteralTexts == {Literals[i].value : i \in 1..Len(Literals)}

\* the literal texts that another literal text is a proper prefix of
PrefixedLiterals ==
    {b \in LiteralTexts :
        \E a \in LiteralTexts : a # b /\ StartsWith(b, a)}

TwoCharOperators == {"<=", ">=", "==", "!=", "+=", "-=", "*=", "/=", "%=", "^="}

\* every literal alone, and the prefixed literals and two-character operators
\* alone and followed by one more character
TableSources ==
    LiteralTexts \cup TwoCharOperators \cup Scenarios
        \cup {b \o c : b \in PrefixedLiterals \cup TwoCharOperators,
                       c \in {"=", ">", "x"}}

TableInit ==
    \E src \in TableSources :
        /\ matched = [p \in 1..Len(src) |-> MasterMatch(src, p - 1)]
        /\ \E strict \in BOOLEAN : lexer = NewLexer(src, {}, strict)
        /\ snapshot = NoSnapshot
        /\ op = "init"
        /\ arg = 0
        /\ result = None
        /\ repeated = FALSE
        /\ returned = <<>>
        /\ since = "init"
        /\ rewound = FALSE
        /\ promise = <<>>
        /\ snapFuture = <<>>
        /\ peeked = <<>>
        /\ due = Unseen
        /\ pc = "idle"
        /\ cache = "compiled"
        /\ compilations = 1
        /\ thread = [t \in Threads |-> Constructed]

TableNext ==
    \/ CallNext
    \/ \E offset \in 0..MaxPeek : CallPeek(offset)

TableSpec == TableInit /\ [][TableNext]_vars

(***************************************************************************)
(* Threads that construct Lexer instances in a fresh process               *)
(***************************************************************************)
\* Lexer.__init__ calls _compile_master_regex, which functools.lru_cache
\* wraps: the wrapper looks the call up in its cache, on a miss runs the
\* function, and then stores the result.  The function runs outside the
\* cache's lock, so other threads run between the three steps.
CompileInit ==
    /\ cache = "empty"
    /\ compilations = 0
    /\ thread = [t \in Threads |-> [pc |-> "start", built |-> 0]]
    /\ lexer = NewLexer("", {}, TRUE)
    /\ matched = <<>>
    /\ snapshot = NoSnapshot
    /\ op = "init"
    /\ arg = 0
    /\ result = None
    /\ repeated = FALSE
    /\ returned = <<>>
    /\ since = "init"
    /\ rewound = FALSE
    /\ promise = <<>>
    /\ snapFuture = <<>>
    /\ peeked = <<>>
    /\ due = Unseen
    /\ pc = "idle"

Unchanged_lexer ==
    UNCHANGED <<lexer, matched, snapshot, op, arg, result, repeated, returned,
                since, rewound, promise, snapFuture, peeked, due, pc>>

\* the wrapper looks the call up: a hit returns the cached pattern and
\* __init__ completes
CacheLookup(t) ==
    /\ thread[t].pc = "start"
    /\ thread' = [thread EXCEPT ![t] =
                     IF cache = "compiled"
                     THEN [pc |-> "done", built |-> @.built + 1]
                     ELSE [@ EXCEPT !.pc = "missed"]]
    /\ UNCHANGED <<cache, compilations>>
    /\ Unchanged_lexer

\* after a miss the body of _compile_master_regex runs
Compile(t) ==
    /\ thread[t].pc = "missed"
    /\ compilations' = compilations + 1
    /\ thread' = [thread EXCEPT ![t].pc = "computed"]
    /\ UNCHANGED cache
    /\ Unchanged_lexer

\* the wrapper stores the result and __init__ completes
CacheStore(t) ==
    /\ thread[t].pc = "computed"
    /\ cache' = "compiled"
    /\ thread' = [thread EXCEPT ![t] = [pc |-> "done", built |-> @.built + 1]]
    /\ UNCHANGED compilations
    /\ Unchanged_lexer

\* the thread constructs another Lexer
ConstructAgain(t) ==
    /\ thread[t].pc = "done"
    /\ thread[t].built < MaxLexers
    /\ thread' = [thread EXCEPT ![t].pc = "start"]
    /\ UNCHANGED <<cache, compilations>>
    /\ Unchanged_lexer

CompileNext ==
    \E t \in Threads :
        \/ CacheLookup(t)
        \/ Compile(t)
        \/ CacheStore(t)
        \/ ConstructAgain(t)

CompileSpec == CompileInit /\ [][CompileNext]_vars

(***************************************************************************)
(* A caller that also asks the Lexer for tokenize, as the test does        *)
(***************************************************************************)
\* the names class Lexer defines: its slots, properties and methods
LexerAttributes ==
    {"_col", "_filename", "_ignore_types", "_line", "_master_regex", "_pos",
     "_source", "_strict_mode", "_token_buffer",
     "__init__", "from_file", "line", "column", "position",
     "create_snapshot", "restore_snapshot", "peek", "__enter__", "__exit__",
     "__iter__", "__next__", "_scan_next_valid_token", "_is_eof",
     "_construct_token", "_update_location_fast", "_should_skip",
     "_handle_lexical_error", "_intern_if_eligible", "_create_visual_error",
     "_create_error"}

\* what looking up a name the class does not define raises
AttributeError(name) == [kind |-> "attribute_error", name |-> name]

\* Lexer(...).tokenize(): the name is looked up on the instance; the class
\* defines no such name and its __slots__ leave no room for one
CallTokenize ==
    /\ pc = "idle"
    /\ "tokenize" \notin LexerAttributes
    /\ result' = AttributeError("tokenize")
    /\ op' = "tokenize"
    /\ arg' = 0
    /\ repeated' = FALSE
    /\ due' = Unseen
    /\ UNCHANGED <<lexer, matched, snapshot, returned, since, rewound, promise,
                   snapFuture, peeked, pc, cache, compilations, thread>>

TokenizeNext ==
    \/ CallNext
    \/ \E offset \in 0..MaxPeek : CallPeek(offset)
    \/ CallTokenize

TokenizeSpec == Init /\ [][TokenizeNext]_vars

\* the tokens repeated __next__ calls would still return from here
Remaining == TokensOf(Drain(lexer))

\* __next__ has raised StopIteration since the last restore_snapshot
Exhausted == returned # <<>> /\ returned[Len(returned)] = StopIteration

\* C11: peek(k) returns None only when fewer than k + 1 tokens remain to be
\* returned; peek(0) returns None exactly where __next__ raises StopIteration;
\* once __next__ has raised StopIteration, until a restore_snapshot, every
\* __next__ raises it again and every peek returns None.
C11_EndOfInput ==
    /\ (op = "peek" /\ result = None) => Len(Remaining) < arg + 1
    /\ (op = "peek" /\ result.kind = "token") =>
           Len(Remaining) >= arg + 1 /\ result.tok = Remaining[arg + 1]
    /\ (peek(lexer, 0).res = None) <=> (__next__(lexer).res = StopIteration)
    /\ Exhausted =>
           /\ \A i \in 1..(Len(returned) - 1) : returned[i].kind = "token"
           /\ op = "next" => result = StopIteration
           /\ op = "peek" => result = None
           /\ __next__(lexer).res = StopIteration
           /\ \A k \in 0..MaxPeek : peek(lexer, k).res = None

\* peek(1) has returned None with one token still to be returned
C11_Witness ==
    /\ op = "peek" /\ arg = 1 /\ result = None
    /\ Len(Remaining) = 1 /\ Len(Buffer) = 1
    /\ peek(lexer, 0).res.kind = "token"

\* C12: every pass through the scan loop that neither returns nor raises
\* moves the cursor forward, so every __next__ and peek call returns or
\* raises; repeated __next__ calls reach StopIteration or the strict error
\* after at most len(source) tokens.
C12_Termination ==
    /\ [][(pc = "scan" /\ pc' = "scan") => lexer'._pos > lexer._pos]_vars
    /\ [](lexer._pos <= Len(Source))
    /\ (pc # "idle") ~> (pc = "idle")
    /\ [](Len(ReturnedTokens) <= Len(Source))
    /\ <>Ended(returned)

\* a recovery scan that skips whitespace has reached the end of input; one
\* call looped over three characters or more before it returned its token
C12_Witness ==
    /\ pc = "idle" /\ op = "next" /\ result = StopIteration
    /\ ~lexer._strict_mode /\ lexer._ignore_types = WhitespaceKinds
    /\ \E i \in 1..(Len(ReturnedTokens) - 1) :
           ReturnedTokens[i + 1].position
               >= ReturnedTokens[i].position + Len(ReturnedTokens[i].text) + 3

\* C13: the Lexer offers tokenize(), which returns the whole ordered sequence
\* of tokens that repeated __next__ calls return until the end of input.
C13_BulkTokenize ==
    op = "tokenize" =>
        /\ result.kind = "list"
        /\ result.toks = TokensOf(Drain(lexer))

\* the place of a kind in the alternation of the master regex
PlaceOf(name) == CHOOSE i \in 1..Len(SortedTokens) : SortedTokens[i].name = name
\* the kind whose pattern denotes exactly `text`
KindOfText(text) ==
    TokenType[CHOOSE i \in 1..Len(TokenType) : TokenType[i].re = Lit(text)].name

\* the source starts with `text` and the first __next__ has returned
FirstIs(text) ==
    returned # <<>> => returned[1] = Returned(Token(KindOfText(text), text, 0, 1, 1))

\* the order of the master regex: literals before patterns, longer literals
\* before shorter ones
LiteralsLongestFirst ==
    LET literal == [i \in 1..Len(SortedTokens) |->
                       _is_literal_pattern(SortedTokens[i].value)]
    IN  \A i, j \in 1..Len(SortedTokens) :
            /\ (literal[i] /\ ~literal[j]) => i < j
            /\ (literal[i] /\ literal[j] /\ i < j)
                   => Len(SortedTokens[i].value) >= Len(SortedTokens[j].value)

\* C14: in the master regex every literal comes before every regex pattern
\* and the literals come in non-increasing length; where a literal B, of
\* which another literal is a proper prefix, stands at the cursor, the token
\* returned is B's, not the shorter literal's.
C14_LongestLiteralFirst ==
    /\ LiteralsLongestFirst
    /\ \A b \in PrefixedLiterals :
           (since = "init" /\ StartsWith(Source, b)) => FirstIs(b)

\* "->x" scanned to its end: the arrow, not the minus, then the identifier
C14_Witness ==
    /\ Source = "->x" /\ since = "init"
    /\ Len(returned) = 3 /\ returned[3] = StopIteration
    /\ returned[1].tok.type = "SEPARATOR_ARROW"
    /\ returned[2].tok.type = "IDENTIFIER_IDENTIFIER"

\* every two-character operator has its place before its first character's
TwoCharBeforeOneChar ==
    \A two \in TwoCharOperators :
        PlaceOf(KindOfText(two)) < PlaceOf(KindOfText(SubSeq(two, 1, 1)))

\* C15: each two-character operator comes before the kind of its first
\* character in the master regex, and two-character text at the cursor gives
\* one token of the two-character kind.
C15_TwoCharOperatorsFirst ==
    /\ TwoCharBeforeOneChar
    /\ \A two \in TwoCharOperators :
           (since = "init" /\ StartsWith(Source, two)) => FirstIs(two)

\* "+==" scanned to its end: "+=" by declaration order, then "="
C15_Witness ==
    /\ Source = "+==" /\ since = "init"
    /\ Len(returned) = 3 /\ returned[3] = StopIteration
    /\ returned[1].tok.type = "OPERATOR_ASSIGNMENT_ADDITION"
    /\ returned[2].tok.type = "OPERATOR_ASSIGNMENT"

\* the categories whose name is a prefix of the member name n
CategoriesNamedIn(n) ==
    {c \in 1..Len(TokenCategory) : StartsWith(n, TokenCategory[c])}

\* every member of TokenType has one category by its name, the one the map
\* gives it, and it is not UNKNOWN
EveryKindHasOneCategory ==
    \A i \in 1..Len(TokenType) :
        LET n == TokenType[i].name
        IN  /\ Cardinality(CategoriesNamedIn(n)) = 1
            /\ \A c \in CategoriesNamedIn(n) : CategoryOfName(n) = TokenCategory[c]
            /\ CategoryOfName(n) # "UNKNOWN"

\* C17: every TokenType maps to exactly one TokenCategory, the only one whose
\* name is a prefix of the kind's name, and none through the UNKNOWN
\* fallback; so does the kind of every token the lexer hands out.
C17_TotalCategoryMapping ==
    /\ EveryKindHasOneCategory
    /\ \A t \in KnownTokens :
           /\ t.type \in TypeNames
           /\ CategoryOfName(t.type) # "UNKNOWN"
           /\ StartsWith(t.type, CategoryOfName(t.type))

\* tokens of three categories have been returned
C17_Witness ==
    Cardinality({CategoryOfName(ReturnedTokens[i].type) :
                    i \in 1..Len(ReturnedTokens)}) >= 3

\* C16: the master regex is compiled at most once in a process, also when
\* several threads construct Lexer instances before the first compilation
\* has been cached.
C16_CompileOnce == compilations <= 1

\* Lexer.position, Lexer.line, Lexer.column
PublicLocation(self) == <<self._pos, self._line, self._col>>

\* C18 as stated: position, line and column are the same after a peek(k) as
\* before it, for any k.
C18_PeekKeepsCursor ==
    [][op' = "peek" => PublicLocation(lexer') = PublicLocation(lexer)]_vars

\* C18 amended: a peek(k) that finds more than k tokens buffered leaves
\* position, line and column as they were; a peek that has to scan moves them
\* forward, never backward; in both cases what the following __next__ calls
\* return is unchanged.
C18_PeekMovesCursorOnlyToScan ==
    [][op' = "peek" =>
          /\ Len(Buffer) > arg' => PublicLocation(lexer') = PublicLocation(lexer)
          /\ PublicLocation(lexer') # PublicLocation(lexer) =>
                 /\ Len(Buffer) <= arg'
                 /\ lexer'._pos > lexer._pos
                 /\ lexer'._line >= lexer._line
          /\ Drain(lexer') = Drain(lexer)]_vars

\* before any __next__ call, peek(1) has returned a token of the second
\* line: nothing is consumed, and position and line have moved
C18_Witness ==
    /\ op = "peek" /\ arg = 1 /\ result.kind = "token"
    /\ since = "init" /\ returned = <<>>
    /\ lexer._pos > 0 /\ lexer._line = 2
    /\ Len(Buffer) = 2

\* the strict lexer's cursor stands on a character no pattern matches
Failed == lexer._strict_mode /\ AtUnmatched(lexer)

\* the error a strict scan raises at the cursor
ErrorHere == _create_visual_error(lexer)

\* C20: in strict mode an UnexpectedCharacterError leaves the cursor on the
\* unmatched character and the buffered tokens in the buffer; from then on
\* __next__ returns the buffered tokens and after them raises the same error
\* again and again; no token that starts after the unmatched character is
\* ever returned.
C20_StickyStrictFailure ==
    /\ [](result.kind = "error" =>
             /\ Failed
             /\ result = ErrorHere
             /\ Drain(lexer) = [i \in 1..Len(Buffer) |-> Returned(Buffer[i])]
                                   \o <<result>>)
    /\ [][(result'.kind = "error" /\ op' \in {"next", "peek"}) =>
             /\ IsPrefix(Buffer, Buffer')
             /\ lexer'._pos >= lexer._pos]_vars
    /\ [][(Failed /\ op' \in {"next", "peek", "create_snapshot"}) =>
             /\ Failed'
             /\ PublicLocation(lexer') = PublicLocation(lexer)
             /\ op' = "next" =>
                    /\ Buffer # <<>> =>
                           result' = Returned(Head(Buffer)) /\ Buffer' = Tail(Buffer)
                    /\ Buffer = <<>> => result' = ErrorHere /\ lexer' = lexer
             /\ (op' = "peek" /\ Len(Buffer) <= arg') =>
                    result' = ErrorHere /\ lexer' = lexer]_vars
    /\ [](Failed => \A t \in KnownTokens : t.position < lexer._pos)
    /\ [](lexer._strict_mode =>
             \A t \in KnownTokens : \A e \in UnmatchedFrom(0) : t.position < e)

\* peek(1) has raised the error with a token in the buffer, on a second line
C20_Witness ==
    /\ op = "peek" /\ arg = 1 /\ result.kind = "error"
    /\ Len(Buffer) = 1
    /\ result.info.position > Buffer[1].position

\* the offset just past the text of token t
EndOf(t) == t.position + Len(t.text)

\* the tokens of a buffer start at strictly increasing offsets and all end at
\* or before offset p
OrderedUpTo(buffer, p) ==
    /\ \A i, j \in 1..Len(buffer) :
           i < j => buffer[i].position < buffer[j].position
    /\ \A i \in 1..Len(buffer) : EndOf(buffer[i]) <= p

\* C21: after any sequence of __next__, peek, create_snapshot and
\* restore_snapshot calls, 0 <= position <= len(source), the buffered tokens
\* start at strictly increasing offsets and each ends at or before the scan
\* cursor, so the token the next scan produces starts at or after the end of
\* every buffered token; the snapshot the caller holds is ordered the same way.
C21_BufferCursorInvariant ==
    /\ 0 <= lexer._pos /\ lexer._pos <= Len(Source)
    /\ OrderedUpTo(Buffer, lexer._pos)
    /\ LET scan == _scan_next_valid_token(lexer)
       IN  scan.res.kind = "token" =>
               /\ scan.res.tok.position >= lexer._pos
               /\ \A i \in 1..Len(Buffer) : EndOf(Buffer[i]) <= scan.res.tok.position
    /\ snapshot # NoSnapshot =>
           /\ 0 <= snapshot.pos /\ snapshot.pos <= Len(Source)
           /\ OrderedUpTo(snapshot.buffer, snapshot.pos)

\* a snapshot with two buffered tokens has been restored after the lexer had
\* moved on, and a further token is still to be scanned behind a skipped one
C21_Witness ==
    /\ op = "restore_snapshot" /\ rewound
    /\ Len(Buffer) = 2
    /\ lexer._pos = snapshot.pos /\ lexer._pos > 0
    /\ LET scan == _scan_next_valid_token(lexer)
       IN  /\ scan.res.kind = "token"
           /\ scan.res.tok.position > lexer._pos

\* the source ends in a line feed
EndsInLineFeed == Source # "" /\ CharAt(Source, Len(Source) - 1) = "\n"

\* C22: no token returned or buffered has empty text or the kind
\* WHITESPACE_EOF; at every offset before the end of the source the master
\* regex matches nothing or at least one character, never as WHITESPACE_EOF;
\* at the offset of a line feed that ends the source it matches
\* WHITESPACE_LINE_FEED; a scan that produces a token moves the cursor forward.
C22_NoEmptyTokens ==
    /\ \A t \in KnownTokens : t.text # "" /\ t.type # "WHITESPACE_EOF"
    /\ \A p \in 0..(Len(Source) - 1) :
           LET m == matched[p + 1]
           IN  m.end # -1 => (m.end > p /\ m.type # "WHITESPACE_EOF")
    /\ EndsInLineFeed =>
           matched[Len(Source)] =
               [type |-> "WHITESPACE_LINE_FEED", end |-> Len(Source)]
    /\ LET scan == _scan_next_valid_token(lexer)
       IN  scan.res.kind = "token" =>
               /\ scan.res.tok.text # ""
               /\ scan.self._pos >= lexer._pos + Len(scan.res.tok.text)
               /\ scan.self._pos > lexer._pos

\* a source that ends in a line feed has been scanned to its end: the last
\* token is the line feed, and StopIteration follows it
C22_Witness ==
    /\ EndsInLineFeed /\ Len(Source) = 2
    /\ op = "next" /\ result = StopIteration /\ since = "init"
    /\ Len(ReturnedTokens) = 2
    /\ ReturnedTokens[2] =
           Token("WHITESPACE_LINE_FEED", "\n", 1, 1, 2)

\* the lexer as restore_snapshot would leave it, given the snapshot the caller
\* holds
Restored == restore_snapshot(lexer, snapshot)

\* C23: no __next__, peek or restore_snapshot call changes a snapshot; in
\* every state, whatever calls and restores came before, restoring the held
\* snapshot gives the results of the following __next__ calls that were due
\* when the snapshot was taken, and a create_snapshot directly after the
\* restore returns a snapshot equal to it.
C23_SnapshotReusable ==
    /\ [][op' # "create_snapshot" => snapshot' = snapshot]_vars
    /\ [](snapshot # NoSnapshot =>
             /\ Drain(Restored) = snapFuture
             /\ create_snapshot(Restored) = snapshot)
    /\ [](op = "restore_snapshot" =>
             /\ create_snapshot(lexer) = snapshot
             /\ Drain(lexer) = snapFuture
             /\ promise = snapFuture)

\* a snapshot with a buffered token was restored, __next__ then returned two
\* of the tokens due and moved the lexer away from the snapshot; restoring it
\* once more here gives the sequence the first restore gave
C23_Witness ==
    /\ since = "restore" /\ promise = snapFuture
    /\ snapshot # NoSnapshot /\ snapshot.buffer # <<>>
    /\ op = "next" /\ Len(ReturnedTokens) = 2
    /\ create_snapshot(lexer) # snapshot
    /\ Drain(Restored) = promise
    /\ Len(promise) >= 3

(***************************************************************************)
(* A caller that uses the Lexer as a context manager and keeps it after    *)
(* the with block                                                          *)
(***************************************************************************)
\* faulty variant: only the oldest buffered token is dropped
__exit__popleft(self) ==
    [self EXCEPT !._token_buffer = IF @ = <<>> THEN <<>> ELSE Tail(@)]

\* Lexer.__exit__: the buffer is cleared, nothing else is touched
__exit__(self) == [self EXCEPT !._token_buffer = <<>>]

\* the with block is left: __exit__ runs and returns None
CallExit ==
    /\ lexer' = __exit__(lexer)
    /\ result' = None
    /\ op' = "__exit__"
    /\ arg' = 0
    /\ repeated' = FALSE
    /\ peeked' = <<>>
    /\ due' = Unseen
    /\ UNCHANGED <<matched, snapshot, returned, since, rewound, promise,
                   snapFuture>>
    /\ UNCHANGED <<pc, cache, compilations, thread>>

ExitNext ==
    \/ CallNext
    \/ \E offset \in 0..MaxPeek : CallPeek(offset)
    \/ CallCreateSnapshot
    \/ CallRestoreSnapshot
    \/ CallExit

ExitSpec == Init /\ [][ExitNext]_vars

\* the results of a buffer's tokens, as __next__ hands them out
AsReturned(buffer) == [i \in 1..Len(buffer) |-> Returned(buffer[i])]

\* C24: __exit__ empties the buffer and leaves position, line and column (and
\* any snapshot) as they were; the tokens the buffer held are not among those
\* the following __next__ calls return, which are the tokens scanned from the
\* cursor on, all starting at or after the end of the dropped ones; before
\* the exit the same calls would have returned the buffered tokens first.
C24_ContextExit ==
    [][op' = "__exit__" =>
          /\ Buffer' = <<>>
          /\ PublicLocation(lexer') = PublicLocation(lexer)
          /\ lexer' = [lexer EXCEPT !._token_buffer = <<>>]
          /\ snapshot' = snapshot
          /\ Drain(lexer) = AsReturned(Buffer) \o Drain(lexer')
          /\ \A t \in {Buffer[i] : i \in 1..Len(Buffer)} :
                 \A r \in {Drain(lexer')[i] : i \in 1..Len(Drain(lexer'))} :
                     r.kind = "token" =>
                         /\ r.tok # t
                         /\ r.tok.position >= lexer._pos
                         /\ r.tok.position >= EndOf(t)]_vars

\* __exit__ has dropped two buffered tokens of which __next__ had returned
\* none, and the first __next__ after it has returned the third token of the
\* source
C24_Witness ==
    /\ op = "next" /\ result.kind = "token" /\ since = "init"
    /\ lexer._ignore_types = {}
    /\ Len(ReturnedTokens) = 1 /\ Buffer = <<>>
    /\ Len(Unfiltered) >= 4
    /\ ReturnedTokens[1] = Unfiltered[3].tok
    /\ ReturnedTokens[1].position >= EndOf(Unfiltered[2].tok)

(***************************************************************************)
(* Scans of identifier-shaped words built on the words of the token table  *)
(***************************************************************************)
IsWord(text) ==
    text # "" /\ \A i \in 1..Len(text) : SubSeq(text, i, i) \in WordChars

\* the literals of the master regex that are words: AND, OR, bXOR, ...
WordOperators == {w \in LiteralTexts : IsWord(w)}

\* the words of the keyword patterns \bword\b
KeywordTexts ==
    {TokenType[i].re.rs[2].s :
        i \in {j \in 1..Len(TokenType) : StartsWith(TokenType[j].name, "KEYWORD")}}

\* the longest word of the table that the sources below are built on
MaxWord == 3
ShortWords == {w \in WordOperators \cup KeywordTexts : Len(w) <= MaxWord}

\* every short word of the table alone, followed by one more identifier
\* character, and after one
WordSources ==
    {w \o c : w \in ShortWords, c \in {"", "x", "_", "1"}}
        \cup {"x" \o w : w \in ShortWords}

WordInit ==
    \E src \in WordSources :
        /\ matched = [p \in 1..Len(src) |-> MasterMatch(src, p - 1)]
        /\ \E strict \in BOOLEAN : lexer = NewLexer(src, {}, strict)
        /\ snapshot = NoSnapshot
        /\ op = "init"
        /\ arg = 0
        /\ result = None
        /\ repeated = FALSE
        /\ returned = <<>>
        /\ since = "init"
        /\ rewound = FALSE
        /\ promise = <<>>
        /\ snapFuture = <<>>
        /\ peeked = <<>>
        /\ due = Unseen
        /\ pc = "idle"
        /\ cache = "compiled"
        /\ compilations = 1
        /\ thread = [t \in Threads |-> Constructed]

WordSpec == WordInit /\ [][TableNext]_vars

\* src[a:b] is a maximal run of identifier characters that starts with a
\* letter or an underscore and is not followed by '!'
IsWordRun(src, a, b) ==
    /\ 0 <= a /\ a < b /\ b <= Len(src)
    /\ IsWord(Slice(src, a, b))
    /\ CharAt(src, a) \notin Digits
    /\ ~IsWordAt(src, a - 1)
    /\ ~IsWordAt(src, b)
    /\ b = Len(src) \/ CharAt(src, b) # "!"

\* C25: a token that starts inside a maximal run of identifier characters
\* (one that starts with a letter or underscore and is not followed by '!')
\* is the whole run, of a keyword, operator or identifier kind: no such run
\* is split into a word operator and a token for the rest.
C25_WordsNotSplit ==
    \A a \in 0..Len(Source), b \in 0..Len(Source) :
        IsWordRun(Source, a, b) =>
            \A t \in KnownTokens :
                (a <= t.position /\ t.position < b) =>
                    /\ t.position = a /\ EndOf(t) = b
                    /\ CategoryOfName(t.type) \in {"KEYWORD", "OPERATOR", "IDENTIFIER"}
====
